---- MODULE Spec2Model ----
(***************************************************************************)
(* Model of src/app/api/nano-banana/action.tsx: the two result normalizers *)
(* (buildImageListFromURI, buildImageListFromBase64), the exported         *)
(* operations generateImage, editImage and upscaleImage, and the pure      *)
(* helper normalizeSentence.                                               *)
(*                                                                         *)
(* The code runs on a single-threaded event loop.  One action of the model *)
(* is one event of that loop: the start of an exported call, or the        *)
(* completion of one awaited external call (authentication, the remote     *)
(* endpoint, decomposeUri, uploadBase64Image, getSignedURL, the timer).    *)
(* Everything the code does synchronously after the event, up to the next  *)
(* await of an external call, is part of the same action.                  *)
(*                                                                         *)
(* Texts (error messages) are sequences of tokens, so that includes() and  *)
(* replace() are computed rather than assumed.  Every value a call can     *)
(* return is a record, so that values of different shapes can be compared. *)
(***************************************************************************)
EXTENDS Integers, Sequences, FiniteSets, TLC

VARIABLES
    op,          \* the exported function the caller invoked
    pc,          \* where that call is suspended
    appContext,  \* the appContext argument
    formData,    \* editImage: the formData argument
    reqData,     \* editImage: the request body sent to the remote endpoint
    outcome,     \* "none" | "returned" | "thrown"
    result,      \* the value returned or thrown
    response,    \* what the remote endpoint answered (kept for the claims)
    normCalls,   \* the normalizers invoked so far, in order
    normKind,    \* the normalizer running: "none" | "uri" | "b64"
    normState,   \* "none" | "pending" | "resolved" | "rejected"
    normResult,  \* the sequence the normalizer returned
    batch,       \* the ModelResult sequence handed to the normalizer
    folderId,    \* uniqueFolderId of the base64 normalizer call
    task,        \* per item: where its async callback is suspended
    env,         \* per item: how its external calls ended
    rec,         \* per item: the value its promise settled with
    order,       \* item indexes in the order their promises settled
    issued,      \* the storage calls issued so far
    upc,         \* upscaleImage: where the call is suspended
    usource,     \* upscaleImage: the source argument
    ufactor,     \* upscaleImage: the upscaleFactor argument
    udownload,   \* upscaleImage: how downloadMediaFromGcs ended
    ureq,        \* upscaleImage: the request body sent
    uctx,        \* upscaleImage: the appContext argument
    utimer,      \* upscaleImage: the 60 s timer: "off" | "armed" | "fired"
    uremote,     \* upscaleImage: the remote request: "off" | "pending" | "settled"
    uanswer,     \* upscaleImage: what the remote endpoint answered
    urace,       \* upscaleImage: what settled Promise.race: "none" | "remote" | "timeout"
    uoutcome,    \* upscaleImage: "none" | "returned" | "thrown"
    uresult,     \* upscaleImage: the value returned or thrown
    nspc,        \* normalizeSentence: how often it has been applied
    sentence,    \* normalizeSentence: the input
    once,        \* normalizeSentence(sentence)
    twice        \* normalizeSentence(normalizeSentence(sentence))

mainVars == <<op, pc, appContext, formData, reqData, outcome, result, response, normCalls, normKind,
              normState, normResult, batch, folderId, task, env, rec, order, issued>>
upVars == <<upc, usource, ufactor, udownload, ureq, uctx, utimer, uremote, uanswer,
           urace, uoutcome, uresult>>
nsVars == <<nspc, sentence, once, twice>>
vars == <<mainVars, upVars, nsVars>>

----------------------------------------------------------------------------
(* Bounds *)

MaxBatch == 2
MaxLen == 4

----------------------------------------------------------------------------
(* Values *)

None == "none"
NoValue == [none |-> TRUE]
Pending == [pending |-> TRUE]

PeoplefacePhrase == "safety settings for peopleface generation"
AllFilteredPhrase == "All images were filtered out because they violated Vertex AI's usage guidelines"
PersonGenerationPhrase == "Person Generation"
ResponseTooLargePhrase == "Response size too large."
ErrorPrefix == "Error: "

\* String.prototype.includes on a text.
Includes(text, phrase) == \E k \in 1..Len(text) : text[k] = phrase

\* text.replace(token, ''): the first occurrence only.
RECURSIVE ReplaceFirst(_, _)
ReplaceFirst(text, token) ==
    IF text = <<>> THEN <<>>
    ELSE IF Head(text) = token THEN Tail(text)
    ELSE <<Head(text)>> \o ReplaceFirst(Tail(text), token)

\* text.replace(/^Error: /i, ''): only at the start.
ReplaceLeading(text, token) ==
    IF text # <<>> /\ Head(text) = token THEN Tail(text) ELSE text

\* text.replaceAll(token, '').
ReplaceAll(text, token) == SelectSeq(text, LAMBDA t : t # token)

cleanResult(text) == ReplaceAll(ReplaceAll(ReplaceAll(text, "\n"), "/"), "*")

\* An Error object: its message and, when present, errors[0].message.
ErrorOf(message) == [message |-> message, errors |-> None]

\* Error.prototype.toString().
ErrorToString(e) == <<ErrorPrefix>> \o e.message

\* What a failed external call rejects with.
ErrorShapes ==
    { [message |-> <<m>>, errors |-> n] :
        m \in {PeoplefacePhrase, "Request failed"},
        n \in {None, "Quota exceeded"} }

TypeErrorOf(what) == ErrorOf(<<"TypeError: ", what>>)

\* text.startsWith('data:')
StartsWithData(text) == text # <<>> /\ Head(text) = "data:"

\* text.split(',')[1]: what lies between the first comma and the next one.
RECURSIVE UpToComma(_)
UpToComma(text) ==
    IF text = <<>> \/ Head(text) = "," THEN <<>>
    ELSE <<Head(text)>> \o UpToComma(Tail(text))

RECURSIVE AfterComma(_)
AfterComma(text) ==
    IF text = <<>> THEN <<>>
    ELSE IF Head(text) = "," THEN Tail(text)
    ELSE AfterComma(Tail(text))

SplitCommaSecond(text) == UpToComma(AfterComma(text))

\* A storage URI is a text; the empty text stands for a missing or empty one.
Uri1 == <<"gs://", "bucket", "/", "user1", "/", "generated-images", "/", "777", "/", "sample_", "0", ".png">>
Uri2 == <<"gs://", "bucket", "/", "user1", "/", "edited-images", "/", "888", "/", "sample_", "1", ".jpeg">>

\* The ModelResult items the remote endpoint produces.
Reasons == {AllFilteredPhrase, "Violence"}
FilteredItems ==
    { [rai |-> r, bytes |-> None, gcsUri |-> <<>>, mimeType |-> None, prompt |-> ""] :
        r \in Reasons }
Base64Items ==
    { [rai |-> None, bytes |-> "AAAA", gcsUri |-> <<>>, mimeType |-> "image/png", prompt |-> ""],
      [rai |-> None, bytes |-> "AAAA", gcsUri |-> <<>>, mimeType |-> "image/jpeg", prompt |-> ""],
      [rai |-> None, bytes |-> "BBBB", gcsUri |-> <<>>, mimeType |-> "image/png", prompt |-> "a cat"] }
UriItems ==
    { [rai |-> None, bytes |-> None, gcsUri |-> Uri1, mimeType |-> "image/png", prompt |-> ""],
      [rai |-> None, bytes |-> None, gcsUri |-> Uri2, mimeType |-> "image/jpeg", prompt |-> "a cat"] }
Items == FilteredItems \cup Base64Items \cup UriItems

Batches == UNION { [1..n -> Items] : n \in 0..MaxBatch }

\* 'raiFilteredReason' in image
IsFiltered(image) == image.rai # None

\* image.hasOwnProperty('bytesBase64Encoded')
HasBytes(image) == image.bytes # None

\* The outcomes of one external storage call: a value, an error value, a throw.
Outcomes == {"ok", "errval", "throw"}

\* generateUniqueFolderId(): a random 13-digit number; two of its values.
generateUniqueFolderId == {"1000000000000", "9999999999999"}

----------------------------------------------------------------------------
(* The result normalizers *)

\* image.mimeType.replace('image/', '').toUpperCase()
FormatOf(mimeType) ==
    CASE mimeType = "image/png" -> "PNG"
      [] mimeType = "image/jpeg" -> "JPEG"

\* format.toLowerCase(), with the dot the code puts before it.
DotLower(format) ==
    CASE format = "PNG" -> ".png"
      [] format = "JPEG" -> ".jpeg"

\* The chain of replace calls that derives ID from a name.
DeriveID(name, userID, format) ==
    ReplaceFirst(
      ReplaceFirst(
        ReplaceFirst(
          ReplaceFirst(
            ReplaceFirst(ReplaceAll(name, "/"), userID),
            "generated-images"),
          "edited-images"),
        "sample_"),
      DotLower(format))

\* decomposeUri(uri).fileName: the object path after the bucket.
DecomposedFileName(uri) == IF Len(uri) > 3 THEN SubSeq(uri, 4, Len(uri)) ELSE <<>>

\* getSignedURL(uri) when it succeeds.
SignedURL(uri) == <<"https://signed/">> \o uri

\* targetGcsURI.replace('gs://', '').split('/')[0]
BucketName(targetGcsURI) == ReplaceFirst(targetGcsURI, "gs://")[1]

\* targetGcsURI.split(bucketName + '/')[1] + '/' + uniqueFolderId
FolderName(targetGcsURI, uniqueFolderId) ==
    SubSeq(targetGcsURI, 4, Len(targetGcsURI)) \o <<"/", uniqueFolderId>>

\* imagesBase64.findIndex((obj) => obj.bytesBase64Encoded === image.bytesBase64Encoded),
\* zero-based.
FindIndex(images, image) ==
    (CHOOSE k \in 1..Len(images) :
        /\ images[k].bytes = image.bytes
        /\ \A j \in 1..(k - 1) : images[j].bytes # image.bytes) - 1

\* 'sample_' + index.toString()
Base64FileName(images, image) == <<"sample_", ToString(FindIndex(images, image))>>

\* folderName + '/' + fileName + '.' + format.toLocaleLowerCase()
FullObjectName(images, image, targetGcsURI, uniqueFolderId) ==
    FolderName(targetGcsURI, uniqueFolderId) \o <<"/">>
        \o Base64FileName(images, image)
        \o <<DotLower(FormatOf(image.mimeType))>>

\* result.fileUrl of a successful uploadBase64Image(bytes, bucket, objectName).
UploadedFileUrl(bucketName, objectName) == <<"gs://", bucketName, "/">> \o objectName

WarningRecord(image) == [warning |-> image.rai]

AccessErrorRecord == [error |-> <<"Error while getting secured access to content.">>]

ImageRecord(image, signedURL, gcsUri, fileName, ID, args) ==
    [ src |-> signedURL,
      gcsUri |-> gcsUri,
      format |-> FormatOf(image.mimeType),
      prompt |-> IF image.prompt # "" THEN image.prompt ELSE args.usedPrompt,
      altText |-> <<"Generated image ">> \o fileName,
      key |-> ID,
      width |-> args.width,
      height |-> args.height,
      ratio |-> args.aspectRatio,
      date |-> "today",
      author |-> args.userID,
      modelVersion |-> args.modelVersion,
      mode |-> args.mode ]

\* Faulty variant: the settled values in the order the promises settled.
PromiseAllAsSettled(r, o) == [k \in 1..Len(o) |-> r[o[k]]]

\* Promise.all(promises): the settled values by position of the promise.
PromiseAll(r, o) == [i \in 1..Len(r) |-> r[i]]

\* .filter((image) => image !== null)
FilterNotNull(list) == SelectSeq(list, LAMBDA image : image # [null |-> TRUE])

\* The arguments a caller passes to a normalizer besides the images.
NormArgs(caller, kind) ==
    [ aspectRatio |-> "1:1", width |-> 1024, height |-> 1024,
      usedPrompt |-> "a dog", userID |-> "user1",
      modelVersion |-> "imagen-3.0-capability-001",
      targetGcsURI |-> <<"gs://", "bucket", "/", "user1", "/",
                         IF caller = "edit" THEN "edited-images" ELSE "generated-images">>,
      mode |-> IF caller = "edit" /\ kind = "uri" THEN "Edited" ELSE "Generated" ]

\* The storage calls, as they are recorded in issued.
DecomposeCall(i, image) == [fn |-> "decomposeUri", item |-> i, arg |-> image.gcsUri]
UploadCall(i, objectName) == [fn |-> "uploadBase64Image", item |-> i, arg |-> objectName]
SignCall(i, uri) == [fn |-> "getSignedURL", item |-> i, arg |-> uri]

\* The object an item of the running base64 call is uploaded as.
ObjectNameOf(i) ==
    FullObjectName(batch, batch[i], NormArgs(op, "b64").targetGcsURI, folderId)

\* Faulty variant: an {error} value of getSignedURL is taken for the URL.
UriSettledUnchecked(i, signOutcome) ==
    LET image == batch[i]
        args == NormArgs(op, "uri")
        fileName == DecomposedFileName(image.gcsUri)
    IN  IF signOutcome \in {"ok", "errval"}
        THEN ImageRecord(image, SignedURL(image.gcsUri), image.gcsUri, fileName,
                         DeriveID(fileName, args.userID, FormatOf(image.mimeType)), args)
        ELSE AccessErrorRecord

\* The record of item i of the URI normalizer once getSignedURL has answered.
UriSettled(i, signOutcome) ==
    LET image == batch[i]
        args == NormArgs(op, "uri")
        fileName == DecomposedFileName(image.gcsUri)
    IN  IF signOutcome = "ok"
        THEN ImageRecord(image, SignedURL(image.gcsUri), image.gcsUri, fileName,
                         DeriveID(fileName, args.userID, FormatOf(image.mimeType)), args)
        ELSE AccessErrorRecord

\* The record of item i of the base64 normalizer once getSignedURL has answered.
Base64Settled(i, signOutcome) ==
    LET image == batch[i]
        args == NormArgs(op, "b64")
        imageGcsUri == UploadedFileUrl(BucketName(args.targetGcsURI), ObjectNameOf(i))
    IN  IF signOutcome = "ok"
        THEN ImageRecord(image, SignedURL(imageGcsUri), imageGcsUri,
                         Base64FileName(batch, image),
                         DeriveID(ObjectNameOf(i), args.userID, FormatOf(image.mimeType)),
                         args)
        ELSE AccessErrorRecord

\* What the caller of the normalizer does with its result: the direct caller gets
\* it as it is, editImage and generateImage return the list, or catch the
\* rejection (editImage's second catch, generateImage's catch).
GenerateCatch(error) ==
    LET errorString == ErrorToString(error)
    IN  IF \/ Includes(errorString, PeoplefacePhrase)
           \/ Includes(errorString, AllFilteredPhrase)
           \/ Includes(errorString, PersonGenerationPhrase)
        THEN [outcome |-> "returned",
              result |-> [error |-> ReplaceLeading(errorString, ErrorPrefix)]]
        ELSE IF error.errors # None
        THEN [outcome |-> "returned",
              result |-> [error |-> ReplaceFirst(<<error.errors>>,
                            "Image generation failed with the following error: ")]]
        ELSE [outcome |-> "returned",
              result |-> [error |-> <<"An unexpected error occurred.">>]]

AfterNormResolved(caller, list) ==
    [outcome |-> "returned", result |-> [images |-> list]]

AfterNormRejected(caller, error) ==
    CASE caller = "edit" ->
           [outcome |-> "returned", result |-> [error |-> <<"Issue while editing image.">>]]
      [] caller = "generate" -> GenerateCatch(error)
      [] OTHER -> [outcome |-> "thrown", result |-> [thrown |-> error]]

\* The await of Promise.all, and what follows it in the caller, once the tasks
\* are in states t with settled values r in settling order o.  st is the state
\* of the normalizer call before the event.
Settle(caller, st, t, r, o) ==
    IF st # "pending"
    THEN UNCHANGED <<normState, normResult, pc, outcome, result>>
    ELSE IF \E i \in DOMAIN t : t[i] = "rejected"
    THEN LET first == CHOOSE k \in 1..Len(o) :
                         /\ t[o[k]] = "rejected"
                         /\ \A j \in 1..(k - 1) : t[o[j]] # "rejected"
             end == AfterNormRejected(caller, r[o[first]].rejected)
         IN  /\ normState' = "rejected"
             /\ normResult' = normResult
             /\ pc' = "done"
             /\ outcome' = end.outcome
             /\ result' = end.result
    ELSE IF \A i \in DOMAIN t : t[i] = "done"
    THEN LET list == FilterNotNull(PromiseAll(r, o))
             end == AfterNormResolved(caller, list)
         IN  /\ normState' = "resolved"
             /\ normResult' = list
             /\ pc' = "done"
             /\ outcome' = end.outcome
             /\ result' = end.result
    ELSE /\ normState' = "pending"
         /\ pc' = "norm"
         /\ UNCHANGED <<normResult, outcome, result>>

\* Faulty variant: the URI normalizer does not look at the safety-filter marker.
FirstStepUnfiltered(kind, image) ==
    IF kind = "uri" THEN "decompose"
    ELSE IF IsFiltered(image) THEN "done" ELSE "upload"

\* Where the callback of one item stops when map() calls it: a filtered item
\* returns its warning at once, any other item awaits its first storage call.
FirstStep(kind, image) ==
    IF IsFiltered(image) THEN "done"
    ELSE IF kind = "uri" THEN "decompose" ELSE "upload"

\* The synchronous part of a normalizer call: map() runs every callback up to its
\* first await.  A filtered item's promise is fulfilled at once; any other item
\* has issued decomposeUri (URI) or uploadBase64Image (base64).
StartNormalizer(caller, kind, images, uniqueFolderId) ==
    LET n == Len(images)
        t == [i \in 1..n |-> FirstStep(kind, images[i])]
        r == [i \in 1..n |->
                IF t[i] = "done" THEN WarningRecord(images[i]) ELSE Pending]
        o == SelectSeq([i \in 1..n |-> i], LAMBDA i : t[i] = "done")
    IN  /\ normCalls' = Append(normCalls, kind)
        /\ normKind' = kind
        /\ batch' = images
        /\ folderId' = uniqueFolderId
        /\ task' = t
        /\ rec' = r
        /\ order' = o
        /\ env' = [i \in 1..n |-> [decompose |-> None, upload |-> None, sign |-> None]]
        /\ issued' =
             { DecomposeCall(i, images[i]) :
                 i \in {j \in 1..n : t[j] = "decompose"} }
             \cup
             { UploadCall(i, FullObjectName(images, images[i],
                                 NormArgs(caller, "b64").targetGcsURI, uniqueFolderId)) :
                 i \in {j \in 1..n : t[j] = "upload"} }
        /\ Settle(caller, "pending", t, r, o)

FolderChoices(kind) == IF kind = "b64" THEN generateUniqueFolderId ELSE {None}

normVars == <<normCalls, normKind, normState, normResult, batch, folderId,
              task, env, rec, order, issued>>

\* A direct call of buildImageListFromURI.
CallBuildImageListFromURI ==
    /\ pc = "idle"
    /\ \E images \in Batches :
         /\ op' = "uri"
         /\ StartNormalizer("uri", "uri", images, None)
    /\ UNCHANGED <<appContext, formData, reqData, response, upVars, nsVars>>

\* A direct call of buildImageListFromBase64.
CallBuildImageListFromBase64 ==
    /\ pc = "idle"
    /\ \E images \in Batches, uniqueFolderId \in generateUniqueFolderId :
         /\ op' = "b64"
         /\ StartNormalizer("b64", "b64", images, uniqueFolderId)
    /\ UNCHANGED <<appContext, formData, reqData, response, upVars, nsVars>>

\* decomposeUri answers for item i.  Its result is used outside the try block:
\* a throw, or a result without fileName (fileName.replaceAll on undefined),
\* rejects the item's promise.  Otherwise getSignedURL is called.
DecomposeDone(i, o) ==
    /\ task[i] = "decompose"
    /\ env' = [env EXCEPT ![i].decompose = o]
    /\ IF o = "ok"
       THEN /\ task' = [task EXCEPT ![i] = "sign"]
            /\ issued' = issued \cup {SignCall(i, batch[i].gcsUri)}
            /\ UNCHANGED <<rec, order, normState, normResult, pc, outcome, result>>
       ELSE LET error == IF o = "throw" THEN ErrorOf(<<"decomposeUri failed">>)
                         ELSE TypeErrorOf("fileName is undefined")
                t == [task EXCEPT ![i] = "rejected"]
                r == [rec EXCEPT ![i] = [rejected |-> error]]
                ord == Append(order, i)
            IN  /\ task' = t
                /\ rec' = r
                /\ order' = ord
                /\ issued' = issued
                /\ Settle(op, normState, t, r, ord)
    /\ UNCHANGED <<op, appContext, formData, reqData, response, normCalls, normKind, batch, folderId,
                   upVars, nsVars>>

\* uploadBase64Image answers for item i, inside the try block: success is
\* followed by getSignedURL(result.fileUrl), anything else by the catch.
UploadDone(i, o) ==
    /\ task[i] = "upload"
    /\ env' = [env EXCEPT ![i].upload = o]
    /\ IF o = "ok"
       THEN /\ task' = [task EXCEPT ![i] = "sign"]
            /\ issued' = issued \cup
                 {SignCall(i, UploadedFileUrl(BucketName(NormArgs(op, "b64").targetGcsURI),
                                              ObjectNameOf(i)))}
            /\ UNCHANGED <<rec, order, normState, normResult, pc, outcome, result>>
       ELSE LET t == [task EXCEPT ![i] = "done"]
                r == [rec EXCEPT ![i] = AccessErrorRecord]
                ord == Append(order, i)
            IN  /\ task' = t
                /\ rec' = r
                /\ order' = ord
                /\ issued' = issued
                /\ Settle(op, normState, t, r, ord)
    /\ UNCHANGED <<op, appContext, formData, reqData, response, normCalls, normKind, batch, folderId,
                   upVars, nsVars>>

\* getSignedURL answers for item i, inside the try block of either normalizer.
SignDone(i, o) ==
    /\ task[i] = "sign"
    /\ env' = [env EXCEPT ![i].sign = o]
    /\ LET t == [task EXCEPT ![i] = "done"]
           r == [rec EXCEPT ![i] =
                   IF normKind = "uri" THEN UriSettled(i, o) ELSE Base64Settled(i, o)]
           ord == Append(order, i)
       IN  /\ task' = t
           /\ rec' = r
           /\ order' = ord
           /\ Settle(op, normState, t, r, ord)
    /\ UNCHANGED <<op, appContext, formData, reqData, response, normCalls, normKind, batch, folderId,
                   issued, upVars, nsVars>>

----------------------------------------------------------------------------
(* generateImage and editImage *)

Return(value) ==
    /\ pc' = "done"
    /\ outcome' = "returned"
    /\ result' = value

Throw(error) ==
    /\ pc' = "done"
    /\ outcome' = "thrown"
    /\ result' = [thrown |-> error]

End(end) ==
    /\ pc' = "done"
    /\ outcome' = end.outcome
    /\ result' = end.result

\* The appContext argument: present with gcsURI and userID, or null.
AppContexts == {"present", "null"}

CallGenerateImage ==
    /\ pc = "idle"
    /\ op' = "generate"
    /\ pc' = "auth"
    /\ appContext' \in AppContexts
    /\ UNCHANGED <<formData, reqData, outcome, result, response, normVars, upVars, nsVars>>

\* formData['editMode']: background swap and two of the other modes.
EditModes == {"EDIT_MODE_BGSWAP", "EDIT_MODE_INPAINT_INSERTION", "EDIT_MODE_OUTPAINT"}

\* The formData argument of editImage; the input mask is a data URL.
EditForms ==
    { [ prompt |-> "a dog",
        inputImage |-> <<"AAAA">>,
        inputMask |-> <<"data:", "image/png;base64", ",", "MMMM">>,
        maskDilation |-> "0.01",
        negativePrompt |-> "",
        baseSteps |-> "35",
        sampleCount |-> "2",
        outputOptions |-> "image/png",
        personGeneration |-> "allow_adult",
        editMode |-> mode ] : mode \in EditModes }

NoForm ==
    [prompt |-> "", inputImage |-> <<>>, inputMask |-> <<>>, maskDilation |-> "",
     negativePrompt |-> "", baseSteps |-> "", sampleCount |-> "", outputOptions |-> "",
     personGeneration |-> "", editMode |-> None]

CallEditImage ==
    /\ pc = "idle"
    /\ op' = "edit"
    /\ pc' = "auth"
    /\ appContext' \in AppContexts
    /\ formData' \in EditForms
    /\ UNCHANGED <<reqData, outcome, result, response, normVars, upVars, nsVars>>

\* delete object[field]
Delete(object, field) == [k \in DOMAIN object \ {field} |-> object[k]]

\* data URL ? split(',')[1] : as it is (refInputImage, refInputMask)
RefBase64(text) == IF StartsWithData(text) THEN SplitCommaSecond(text) ELSE text

\* The mask entry of referenceImages as reqData is first built.
MaskReference(form) ==
    [ referenceType |-> "REFERENCE_TYPE_MASK",
      referenceId |-> 2,
      referenceImage |-> [bytesBase64Encoded |-> RefBase64(form.inputMask)],
      maskImageConfig |-> [ maskMode |-> "MASK_MODE_USER_PROVIDED",
                            dilation |-> form.maskDilation ] ]

\* Faulty variant: the dilation field is left in the mask configuration.
BackgroundSwapMaskKeepsDilation(referenceImage) ==
    [ Delete(referenceImage, "referenceImage") EXCEPT
        !.maskImageConfig = [referenceImage.maskImageConfig EXCEPT
                                !.maskMode = "MASK_MODE_BACKGROUND"] ]

\* The three statements of the EDIT_MODE_BGSWAP branch on the mask entry.
BackgroundSwapMask(referenceImage) ==
    [ Delete(referenceImage, "referenceImage") EXCEPT
        !.maskImageConfig =
            Delete([referenceImage.maskImageConfig EXCEPT
                       !.maskMode = "MASK_MODE_BACKGROUND"], "dilation") ]

\* The request body editImage sends.
EditReqData(form) ==
    LET raw == [ referenceType |-> "REFERENCE_TYPE_RAW",
                 referenceId |-> 1,
                 referenceImage |-> [bytesBase64Encoded |-> RefBase64(form.inputImage)] ]
        mask == IF form.editMode = "EDIT_MODE_BGSWAP"
                THEN BackgroundSwapMask(MaskReference(form))
                ELSE MaskReference(form)
    IN  [ instances |-> <<[prompt |-> form.prompt, referenceImages |-> <<raw, mask>>]>>,
          parameters |-> [ negativePrompt |-> form.negativePrompt,
                           editConfig |-> [baseSteps |-> form.baseSteps],
                           editMode |-> form.editMode,
                           sampleCount |-> form.sampleCount,
                           outputOptions |-> [mimeType |-> form.outputOptions],
                           includeRaiReason |-> TRUE,
                           personGeneration |-> form.personGeneration,
                           storageUri |-> <<"gs://", "bucket", "/", "user1", "/",
                                            "edited-images">> ] ]

\* auth.getClient() answers.  A failure is caught and returned; after a success
\* the code runs to the app-context check and then to client.request(opts).
AuthDone(ok) ==
    /\ pc = "auth"
    /\ IF ~ok
       THEN Return([error |-> <<"Unable to authenticate your account to access images">>])
       ELSE IF appContext = "null"
       THEN Throw(ErrorOf(<<"No provided app context">>))
       ELSE /\ pc' = "remote"
            /\ UNCHANGED <<outcome, result>>
    /\ reqData' = IF ok /\ appContext # "null" /\ op = "edit"
                  THEN EditReqData(formData) ELSE reqData
    /\ UNCHANGED <<op, appContext, formData, response, normVars, upVars, nsVars>>

\* The request body generateImage builds: contents and generationConfig.
GenerateReqData ==
    [ contents |-> <<[role |-> "user", parts |-> <<[text |-> "A dog"]>>]>>,
      generationConfig |-> [imageConfig |-> [aspectRatio |-> "1:1"]] ]

\* What the remote endpoint can answer to generateImage: a rejection, or a
\* response whose first candidate has content or not, with or without predictions.
GenerateAnswers ==
    { [kind |-> "reject", error |-> e, content |-> FALSE,
       hasPredictions |-> FALSE, predictions |-> <<>>] : e \in ErrorShapes }
    \cup
    { [kind |-> "response", error |-> ErrorOf(<<>>), content |-> c,
       hasPredictions |-> FALSE, predictions |-> <<>>] : c \in BOOLEAN }
    \cup
    { [kind |-> "response", error |-> ErrorOf(<<>>), content |-> c,
       hasPredictions |-> TRUE, predictions |-> b] : c \in BOOLEAN, b \in Batches }

\* What the remote endpoint can answer to editImage.
EditAnswers ==
    { [kind |-> "reject", error |-> e, content |-> FALSE,
       hasPredictions |-> FALSE, predictions |-> <<>>] : e \in ErrorShapes }
    \cup
    { [kind |-> "response", error |-> ErrorOf(<<>>), content |-> FALSE,
       hasPredictions |-> FALSE, predictions |-> <<>>] }
    \cup
    { [kind |-> "response", error |-> ErrorOf(<<>>), content |-> FALSE,
       hasPredictions |-> TRUE, predictions |-> b] : b \in Batches }

\* resultImages.every((image) => image.hasOwnProperty('bytesBase64Encoded'))
IsResultBase64Images(resultImages) ==
    \A k \in 1..Len(resultImages) : HasBytes(resultImages[k])

NormalizerFor(resultImages) == IF IsResultBase64Images(resultImages) THEN "b64" ELSE "uri"

\* What the try block of generateImage throws before it reaches a normalizer,
\* or NoValue when it reaches one.  opts.data is reqData, which has no
\* parameters field: reading opts.data.parameters.aspectRatio is a TypeError.
GenerateTryError(r) ==
    IF r.kind = "reject" THEN r.error
    ELSE IF ~r.content
    THEN ErrorOf(<<"There were an issue, no images were generated">>)
    ELSE IF "parameters" \notin DOMAIN GenerateReqData
    THEN TypeErrorOf("Cannot read properties of undefined (reading 'aspectRatio')")
    ELSE IF ~r.hasPredictions
    THEN TypeErrorOf("Cannot read properties of undefined (reading 'every')")
    ELSE NoValue

\* client.request(opts) answers in generateImage.
GenerateRemoteDone ==
    /\ pc = "remote"
    /\ op = "generate"
    /\ \E r \in GenerateAnswers :
         /\ response' = r
         /\ IF GenerateTryError(r) # NoValue
            THEN /\ End(GenerateCatch(GenerateTryError(r)))
                 /\ UNCHANGED normVars
            ELSE \E uniqueFolderId \in FolderChoices(NormalizerFor(r.predictions)) :
                    StartNormalizer("generate", NormalizerFor(r.predictions),
                                    r.predictions, uniqueFolderId)
    /\ UNCHANGED <<op, appContext, formData, reqData, upVars, nsVars>>

\* What the first try block of editImage throws, or NoValue when it passes.
EditTryError(r) ==
    IF r.kind = "reject" THEN r.error
    ELSE IF ~r.hasPredictions
    THEN ErrorOf(<<"There were an issue, no images were generated">>)
    ELSE IF r.predictions = <<>>
    THEN TypeErrorOf("Cannot use 'in' operator to search for 'raiFilteredReason' in undefined")
    ELSE IF IsFiltered(r.predictions[1])
    THEN ErrorOf(cleanResult(<<r.predictions[1].rai>>))
    ELSE NoValue

\* The catch of editImage's first try block.  myError.errors[0].message is read
\* without a check: an error without errors makes the catch block itself throw.
EditCatch(error) ==
    LET errorString == ErrorToString(error)
    IN  IF \/ Includes(errorString, PeoplefacePhrase)
           \/ Includes(errorString, AllFilteredPhrase)
        THEN [outcome |-> "returned",
              result |-> [error |-> ReplaceFirst(errorString, ErrorPrefix)]]
        ELSE IF error.errors = None
        THEN [outcome |-> "thrown",
              result |-> [thrown |->
                 TypeErrorOf("Cannot read properties of undefined (reading '0')")]]
        ELSE [outcome |-> "returned", result |-> [error |-> <<error.errors>>]]

\* client.request(opts) answers in editImage.
EditRemoteDone ==
    /\ pc = "remote"
    /\ op = "edit"
    /\ \E r \in EditAnswers :
         /\ response' = r
         /\ IF EditTryError(r) # NoValue
            THEN /\ End(EditCatch(EditTryError(r)))
                 /\ UNCHANGED normVars
            ELSE \E uniqueFolderId \in FolderChoices(NormalizerFor(r.predictions)) :
                    StartNormalizer("edit", NormalizerFor(r.predictions),
                                    r.predictions, uniqueFolderId)
    /\ UNCHANGED <<op, appContext, formData, reqData, upVars, nsVars>>

----------------------------------------------------------------------------
(* The specification of the normalizers, generateImage and editImage *)

NoResponse ==
    [kind |-> "none", error |-> ErrorOf(<<>>), content |-> FALSE,
     hasPredictions |-> FALSE, predictions |-> <<>>]

MainIdle ==
    /\ op = "none"
    /\ pc = "idle"
    /\ appContext = "null"
    /\ formData = NoForm
    /\ reqData = [none |-> TRUE]
    /\ outcome = "none"
    /\ result = NoValue
    /\ response = NoResponse
    /\ normCalls = <<>>
    /\ normKind = "none"
    /\ normState = "none"
    /\ normResult = <<>>
    /\ batch = <<>>
    /\ folderId = None
    /\ task = <<>>
    /\ env = <<>>
    /\ rec = <<>>
    /\ order = <<>>
    /\ issued = {}

NoAnswer == [kind |-> "none", error |-> ErrorOf(<<>>), predictions |-> <<>>]
NoRequest == [none |-> TRUE]

UpscaleIdle ==
    /\ upc = "idle"
    /\ usource = [kind |-> "none", data |-> <<>>]
    /\ ufactor = "none"
    /\ udownload = None
    /\ ureq = NoRequest
    /\ uctx = "null"
    /\ utimer = "off"
    /\ uremote = "off"
    /\ uanswer = NoAnswer
    /\ urace = "none"
    /\ uoutcome = "none"
    /\ uresult = NoValue

SentenceIdle ==
    /\ nspc = "idle"
    /\ sentence = <<>>
    /\ once = <<>>
    /\ twice = <<>>

Init == MainIdle /\ UpscaleIdle /\ SentenceIdle

Next ==
    \/ CallBuildImageListFromURI
    \/ CallBuildImageListFromBase64
    \/ CallGenerateImage
    \/ CallEditImage
    \/ \E ok \in BOOLEAN : AuthDone(ok)
    \/ GenerateRemoteDone
    \/ EditRemoteDone
    \/ \E i \in DOMAIN task, o \in Outcomes : DecomposeDone(i, o)
    \/ \E i \in DOMAIN task, o \in Outcomes : UploadDone(i, o)
    \/ \E i \in DOMAIN task, o \in Outcomes : SignDone(i, o)

Spec == Init /\ [][Next]_vars

----------------------------------------------------------------------------
(* upscaleImage *)

\* The source argument: a storage URI, plain base64, or a base64 data URL.
Sources ==
    { [kind |-> "uri", data |-> Uri1],
      [kind |-> "base64", data |-> <<"AAAA">>],
      [kind |-> "base64", data |-> <<"data:", "image/png;base64", ",", "AAAA">>] }

UpscaleFactors == {"x2", "x4"}

\* base64Image && base64Image.startsWith('data:') ? base64Image.split(',')[1] : base64Image
Base64ImageEncoded(base64Image) ==
    IF StartsWithData(base64Image) THEN SplitCommaSecond(base64Image) ELSE base64Image

UpscaleReqData(base64Image, upscaleFactor) ==
    [ instances |-> <<[prompt |-> "",
                       image |-> [bytesBase64Encoded |-> Base64ImageEncoded(base64Image)]]>>,
      parameters |-> [ sampleCount |-> 1, mode |-> "upscale",
                       upscaleConfig |-> [upscaleFactor |-> upscaleFactor],
                       storageUri |-> <<"gs://", "bucket", "/", "user1", "/", "upscaled-images">> ] ]

\* What the remote endpoint can answer to upscaleImage.
UpscaleAnswers ==
    { [kind |-> "reject", error |-> ErrorOf(m), predictions |-> <<>>] :
        m \in { <<ResponseTooLargePhrase>>,
                <<"Request failed: ", ResponseTooLargePhrase>>,
                <<"Request failed">> } }
    \cup
    { [kind |-> "undefined", error |-> ErrorOf(<<>>), predictions |-> <<>>],
      [kind |-> "response", error |-> ErrorOf(<<>>), predictions |-> <<>>],
      [kind |-> "response", error |-> ErrorOf(<<>>),
       predictions |-> <<[gcsUri |-> Uri2, mimeType |-> "image/jpeg"]>>] }

UpscaleReturn(value) ==
    /\ upc' = "done"
    /\ uoutcome' = "returned"
    /\ uresult' = value

UpscaleThrow(error) ==
    /\ upc' = "done"
    /\ uoutcome' = "thrown"
    /\ uresult' = [thrown |-> error]

CallUpscaleImage ==
    /\ upc = "idle"
    /\ upc' = "auth"
    /\ usource' \in Sources
    /\ ufactor' \in UpscaleFactors
    /\ uctx' \in AppContexts
    /\ UNCHANGED <<udownload, ureq, utimer, uremote, uanswer, urace, uoutcome, uresult,
                   mainVars, nsVars>>

\* From the app-context check to Promise.race: the request is sent and the
\* timer is armed in the same synchronous stretch.
UpscaleIssue(base64Image) ==
    IF uctx = "null"
    THEN /\ UpscaleThrow(ErrorOf(<<"No provided app context">>))
         /\ UNCHANGED <<ureq, utimer, uremote>>
    ELSE /\ ureq' = UpscaleReqData(base64Image, ufactor)
         /\ upc' = "race"
         /\ uremote' = "pending"
         /\ utimer' = "armed"
         /\ UNCHANGED <<uoutcome, uresult>>

\* auth.getClient() answers.
UpscaleAuthDone(ok) ==
    /\ upc = "auth"
    /\ IF ~ok
       THEN /\ UpscaleReturn([error |-> <<"Unable to authenticate your account to access images">>])
            /\ UNCHANGED <<ureq, utimer, uremote>>
       ELSE IF usource.kind = "uri"
       THEN /\ upc' = "download"
            /\ UNCHANGED <<ureq, utimer, uremote, uoutcome, uresult>>
       ELSE UpscaleIssue(usource.data)
    /\ UNCHANGED <<usource, ufactor, udownload, uctx, uanswer, urace, mainVars, nsVars>>

\* downloadMediaFromGcs answers.  An error value or a throw is rethrown.
DownloadDone(o) ==
    /\ upc = "download"
    /\ udownload' = o
    /\ IF o = "ok"
       THEN UpscaleIssue(<<"CCCC">>)
       ELSE /\ UpscaleThrow(ErrorOf(<<ErrorPrefix, "Download failed">>))
            /\ UNCHANGED <<ureq, utimer, uremote>>
    /\ UNCHANGED <<usource, ufactor, uctx, uanswer, urace, mainVars, nsVars>>

\* Faulty variant: the message is compared with the phrase instead of searched for it.
UpscaleCatchExact(error) ==
    IF error.message = <<ResponseTooLargePhrase>>
    THEN [error |-> <<"Image size limit exceeded. The resulting image is too large. Please try a smaller resolution or a different image.">>]
    ELSE [error |-> <<"Error while upscaling images.">>]

\* The catch of the upscale try block.
UpscaleCatch(error) ==
    IF Includes(error.message, ResponseTooLargePhrase)
    THEN [error |-> <<"Image size limit exceeded. The resulting image is too large. Please try a smaller resolution or a different image.">>]
    ELSE [error |-> <<"Error while upscaling images.">>]

\* What the call returns once Promise.race is settled by the remote answer.
UpscaleAfterRemote(answer) ==
    IF answer.kind = "reject" THEN UpscaleCatch(answer.error)
    ELSE IF answer.kind = "undefined"
    THEN UpscaleCatch(ErrorOf(<<"There were an issue, images could not be upscaled">>))
    ELSE IF answer.predictions = <<>>
    THEN UpscaleCatch(TypeErrorOf("Cannot read properties of undefined (reading 'gcsUri')"))
    ELSE [newGcsUri |-> answer.predictions[1].gcsUri,
          mimeType |-> answer.predictions[1].mimeType]

\* Faulty variant: the last settlement wins.
RaceLastWins(settledBy, who) == who

\* Promise.race: the first settlement wins, later ones are ignored.
RaceWinner(settledBy, who) == IF settledBy = "none" THEN who ELSE settledBy

\* client.request(opts) answers.
UpscaleRemoteDone ==
    /\ uremote = "pending"
    /\ \E answer \in UpscaleAnswers :
         /\ uanswer' = answer
         /\ uremote' = "settled"
         /\ urace' = RaceWinner(urace, "remote")
         /\ IF urace' = "remote"
            THEN UpscaleReturn(UpscaleAfterRemote(answer))
            ELSE UNCHANGED <<upc, uoutcome, uresult>>
    /\ UNCHANGED <<usource, ufactor, udownload, ureq, uctx, utimer, mainVars, nsVars>>

\* The 60 s timer of setTimeout fires: reject(new Error('Upscaling timed out')).
UpscaleTimerFired ==
    /\ utimer = "armed"
    /\ utimer' = "fired"
    /\ urace' = RaceWinner(urace, "timeout")
    /\ IF urace' = "timeout"
       THEN UpscaleReturn(UpscaleCatch(ErrorOf(<<"Upscaling timed out">>)))
       ELSE UNCHANGED <<upc, uoutcome, uresult>>
    /\ UNCHANGED <<usource, ufactor, udownload, ureq, uctx, uremote, uanswer,
                   mainVars, nsVars>>

UpscaleNext ==
    \/ CallUpscaleImage
    \/ \E ok \in BOOLEAN : UpscaleAuthDone(ok)
    \/ \E o \in Outcomes : DownloadDone(o)
    \/ UpscaleRemoteDone
    \/ UpscaleTimerFired

\* The event loop runs a timer that is due: the timer of the race fires.
UpscaleSpec == Init /\ [][UpscaleNext]_vars /\ WF_vars(UpscaleTimerFired)

----------------------------------------------------------------------------
(* normalizeSentence *)

\* A sentence is a sequence of characters of this alphabet.
Chars == {"a", "A", " ", ".", ","}

Sentences == UNION { [1..n -> Chars] : n \in 0..MaxLen }

ToLowerCase(c) == IF c = "A" THEN "a" ELSE c
ToUpperCase(c) == IF c = "a" THEN "A" ELSE c

\* sentence.toLowerCase()
LowerAll(s) == [k \in 1..Len(s) |-> ToLowerCase(s[k])]

\* s.split(' '): the words between the spaces, empty words included.
RECURSIVE FirstWord(_)
FirstWord(s) ==
    IF s = <<>> \/ Head(s) = " " THEN <<>>
    ELSE <<Head(s)>> \o FirstWord(Tail(s))

RECURSIVE SplitSpaces(_)
SplitSpaces(s) ==
    LET w == FirstWord(s)
    IN  IF Len(w) = Len(s) THEN <<w>>
        ELSE <<w>> \o SplitSpaces(SubSeq(s, Len(w) + 2, Len(s)))

\* word.charAt(0).toUpperCase() + word.slice(1)
CapitalizeWord(word) ==
    IF word = <<>> THEN <<>> ELSE <<ToUpperCase(Head(word))>> \o Tail(word)

\* word.endsWith('.') || word.endsWith('!') || word.endsWith('?')
EndsSentence(word) == word # <<>> /\ word[Len(word)] \in {".", "!", "?"}

\* The for loop over the words from position k on, newSentence being the flag.
RECURSIVE CapitalizeLoop(_, _)
CapitalizeLoop(words, newSentence) ==
    IF words = <<>> THEN <<>>
    ELSE LET word == IF newSentence THEN CapitalizeWord(Head(words)) ELSE Head(words)
         IN  word \o <<" ">> \o CapitalizeLoop(Tail(words), EndsSentence(word))

\* s.replace(/  +/g, ' ')
RECURSIVE DropSpaces(_)
DropSpaces(s) == IF s # <<>> /\ Head(s) = " " THEN DropSpaces(Tail(s)) ELSE s

RECURSIVE CollapseSpaces(_)
CollapseSpaces(s) ==
    IF s = <<>> THEN <<>>
    ELSE IF Len(s) >= 2 /\ s[1] = " " /\ s[2] = " "
    THEN <<" ">> \o CollapseSpaces(DropSpaces(s))
    ELSE <<Head(s)>> \o CollapseSpaces(Tail(s))

\* s.trim()
RECURSIVE DropTrailingSpaces(_)
DropTrailingSpaces(s) ==
    IF s # <<>> /\ s[Len(s)] = " " THEN DropTrailingSpaces(SubSeq(s, 1, Len(s) - 1)) ELSE s

Trim(s) == DropTrailingSpaces(DropSpaces(s))

\* s.replace(/, ,/g, ','): the matches from left to right, without overlap.
RECURSIVE ReplaceDoubleCommas(_)
ReplaceDoubleCommas(s) ==
    IF s = <<>> THEN <<>>
    ELSE IF Len(s) >= 3 /\ s[1] = "," /\ s[2] = " " /\ s[3] = ","
    THEN <<",">> \o ReplaceDoubleCommas(SubSeq(s, 4, Len(s)))
    ELSE <<Head(s)>> \o ReplaceDoubleCommas(Tail(s))

normalizeSentence(s) ==
    ReplaceDoubleCommas(
        Trim(CollapseSpaces(CapitalizeLoop(SplitSpaces(LowerAll(s)), TRUE))))

SentenceInit ==
    /\ MainIdle
    /\ UpscaleIdle
    /\ nspc = "input"
    /\ sentence \in Sentences
    /\ once = <<>>
    /\ twice = <<>>

\* fullPrompt = normalizeSentence(fullPrompt)
NormalizeOnce ==
    /\ nspc = "input"
    /\ nspc' = "once"
    /\ once' = normalizeSentence(sentence)
    /\ UNCHANGED <<sentence, twice, mainVars, upVars>>

\* The normalizer applied to its own output.
NormalizeAgain ==
    /\ nspc = "once"
    /\ nspc' = "twice"
    /\ twice' = normalizeSentence(once)
    /\ UNCHANGED <<sentence, once, mainVars, upVars>>

SentenceNext == NormalizeOnce \/ NormalizeAgain

SentenceSpec == SentenceInit /\ [][SentenceNext]_vars

----------------------------------------------------------------------------
(* The claims *)

Failed == {"errval", "throw"}

\* The record item i must settle with, from the item and from the answers to
\* its own storage calls alone.
ExpectedRecord(i) ==
    IF IsFiltered(batch[i]) THEN [warning |-> batch[i].rai]
    ELSE IF normKind = "uri" THEN UriSettled(i, env[i].sign)
    ELSE IF env[i].upload \in Failed
    THEN [error |-> <<"Error while getting secured access to content.">>]
    ELSE Base64Settled(i, env[i].sign)

\* C1: whenever a normalizer returns, the returned sequence is as long as the
\* input batch and its i-th record is the record derived from the i-th item,
\* in whatever order the per-item transformations completed.
C1_OrderAndLengthPreserved ==
    normState = "resolved" =>
        /\ Len(normResult) = Len(batch)
        /\ \A i \in 1..Len(batch) : normResult[i] = ExpectedRecord(i)

\* A two-item batch whose second item completed first, the first item having
\* failed and the second having succeeded.
C1_Witness ==
    /\ normState = "resolved"
    /\ Len(batch) = 2
    /\ order = <<2, 1>>
    /\ "error" \in DOMAIN normResult[1]
    /\ "src" \in DOMAIN normResult[2]

\* C2: in one call of the base64 normalizer, the uploads of two items at
\* distinct positions target distinct object names.
C2_DistinctObjectNames ==
    \A c, d \in issued :
        (/\ c.fn = "uploadBase64Image"
         /\ d.fn = "uploadBase64Image"
         /\ c.item # d.item) => c.arg # d.arg

ItemFailed(i) ==
    \/ env[i].decompose \in Failed
    \/ env[i].upload \in Failed
    \/ env[i].sign \in Failed

\* C3: a failed per-item step (decomposition, upload, signed URL; an error
\* value or a throw) never fails the normalizer call: the call does not
\* reject, and once it returns, the sequence is complete and exactly the
\* failed items are error records.
C3_PerItemFailureNeverEscalates ==
    /\ normState # "rejected"
    /\ normState = "resolved" =>
         /\ Len(normResult) = Len(batch)
         /\ \A i \in 1..Len(batch) :
               ItemFailed(i) <=> "error" \in DOMAIN normResult[i]

\* C4: an item whose upload or signed-URL retrieval failed settles with
\* exactly the access error record; every other settled item has the record
\* its own answers determine; no signed URL is requested after a failed upload.
C4_AccessFailureIsLocal ==
    \A i \in 1..Len(batch) :
        (env[i].upload \in Failed \/ env[i].sign \in Failed) =>
            /\ rec[i] = [error |-> <<"Error while getting secured access to content.">>]
            /\ normState = "resolved" => normResult[i] = rec[i]
            /\ env[i].upload \in Failed =>
                  ~ \E c \in issued : c.fn = "getSignedURL" /\ c.item = i
            /\ \A j \in 1..Len(batch) :
                  (j # i /\ task[j] = "done") => rec[j] = ExpectedRecord(j)

\* A returned base64 batch: the upload of item 1 threw, item 2 succeeded.
C4_Witness ==
    /\ normState = "resolved"
    /\ normKind = "b64"
    /\ Len(batch) = 2
    /\ env[1].upload = "throw"
    /\ env[2].sign = "ok"
    /\ normResult[1] = [error |-> <<"Error while getting secured access to content.">>]
    /\ "src" \in DOMAIN normResult[2]

\* C5: a safety-filtered item yields exactly the warning record with its
\* reason, at its position, and no storage call is ever issued for it.
C5_FilteredItemsOnlyWarn ==
    \A i \in 1..Len(batch) :
        IsFiltered(batch[i]) =>
            /\ rec[i] = [warning |-> batch[i].rai]
            /\ normState = "resolved" => normResult[i] = [warning |-> batch[i].rai]
            /\ ~ \E c \in issued : c.item = i

\* A returned URI batch with a filtered item behind a successful one.
C5_Witness ==
    /\ normState = "resolved"
    /\ normKind = "uri"
    /\ Len(batch) = 2
    /\ IsFiltered(batch[2])
    /\ "src" \in DOMAIN normResult[1]
    /\ normResult[2] = [warning |-> "Violence"]

\* C6: in Generate, after a successful authentication, with the app context
\* present and a response that carries content, exactly one normalizer is
\* invoked, the one matching the predictions, and its records are returned.
C6_GenerateReturnsNormalizerRecords ==
    (/\ op = "generate"
     /\ pc = "done"
     /\ response.kind = "response"
     /\ response.content) =>
        /\ outcome = "returned"
        /\ "images" \in DOMAIN result
        /\ normCalls = <<NormalizerFor(response.predictions)>>
        /\ result = [images |-> normResult]

\* C7: Generate and Edit throw only when the app context is missing, Upscale
\* only then or when the download failed; a rejected remote call, a response
\* without predictions and, in Edit, a filtered first prediction end with a
\* returned {error} value, in Edit without a normalizer call.
C7_ThrowOnlyWithoutContext ==
    /\ (op \in {"generate", "edit"} /\ outcome = "thrown") => appContext = "null"
    /\ (/\ op = "edit"
        /\ pc = "done"
        /\ \/ response.kind = "reject"
           \/ response.kind = "response" /\ ~response.hasPredictions
           \/ /\ response.kind = "response" /\ response.predictions # <<>>
              /\ IsFiltered(response.predictions[1])) =>
          /\ outcome = "returned"
          /\ "error" \in DOMAIN result
          /\ normCalls = <<>>
    /\ uoutcome = "thrown" => (uctx = "null" \/ udownload \in Failed)

GenericUpscaleError == [error |-> <<"Error while upscaling images.">>]

C9_NormalizeSentenceIdempotent == nspc = "twice" => twice = once

\* C10: a failure of the remote upscale stage whose message carries
\* 'Response size too large.' returns exactly the size-limit message; the
\* timeout, a response without predictions and every other failure of that
\* stage return exactly the generic message.
C10_UpscaleErrorTranslation ==
    LET tooLarge == /\ urace = "remote"
                    /\ uanswer.kind = "reject"
                    /\ \E k \in 1..Len(uanswer.error.message) :
                          uanswer.error.message[k] = "Response size too large."
        otherFailure == \/ urace = "timeout"
                        \/ /\ urace = "remote"
                           /\ \/ uanswer.kind \in {"reject", "undefined"}
                              \/ uanswer.predictions = <<>>
    IN  /\ tooLarge => (uoutcome = "returned" /\ uresult =
              [error |-> <<"Image size limit exceeded. The resulting image is too large. Please try a smaller resolution or a different image.">>])
        /\ (otherFailure /\ ~tooLarge) =>
              (uoutcome = "returned" /\ uresult = GenericUpscaleError)

\* The remote call was rejected with a longer message that carries the phrase.
C10_Witness ==
    /\ urace = "remote"
    /\ uanswer.kind = "reject"
    /\ uanswer.error.message = <<"Request failed: ", "Response size too large.">>
    /\ "error" \in DOMAIN uresult
    /\ uresult # GenericUpscaleError

\* The mask entry of the request body editImage sent.
SentMask == reqData.instances[1].referenceImages[2]

\* C11: the request body of a background-swap Edit has, in its mask entry,
\* mask mode MASK_MODE_BACKGROUND, no dilation field and no mask image; for
\* every other edit mode the entry keeps MASK_MODE_USER_PROVIDED with the
\* dilation field and the mask image.
C11_BackgroundSwapMaskEntry ==
    (op = "edit" /\ pc \in {"remote", "norm", "done"} /\ "instances" \in DOMAIN reqData) =>
        IF formData.editMode = "EDIT_MODE_BGSWAP"
        THEN /\ SentMask.maskImageConfig.maskMode = "MASK_MODE_BACKGROUND"
             /\ "dilation" \notin DOMAIN SentMask.maskImageConfig
             /\ "referenceImage" \notin DOMAIN SentMask
        ELSE /\ SentMask.maskImageConfig.maskMode = "MASK_MODE_USER_PROVIDED"
             /\ "dilation" \in DOMAIN SentMask.maskImageConfig
             /\ SentMask.maskImageConfig.dilation = formData.maskDilation
             /\ "referenceImage" \in DOMAIN SentMask
             /\ SentMask.referenceImage.bytesBase64Encoded = <<"MMMM">>

\* A background-swap request has been sent and awaits the remote answer.
C11_Witness ==
    /\ op = "edit"
    /\ pc = "remote"
    /\ formData.editMode = "EDIT_MODE_BGSWAP"
    /\ "instances" \in DOMAIN reqData
    /\ reqData.parameters.editMode = "EDIT_MODE_BGSWAP"

\* C12: when a normalizer call has handed control back, by returning or by
\* failing, no per-item transformation of its batch is still in flight.
C12_NothingInFlightAfterCall ==
    normState \in {"resolved", "rejected"} =>
        \A i \in 1..Len(batch) : task[i] \in {"done", "rejected"}

====
